---------------------------- MODULE Spec2Model ----------------------------
(***************************************************************************)
(* Model of the lock-free stock trading engine of src/main.cpp: the global *)
(* array of order books, addOrder and matchOrder running on several        *)
(* threads.  Every access to shared memory is one step.  The stores of the *)
(* program are memory_order_relaxed atomic stores and plain stores, so     *)
(* they pass through a per-thread store buffer and reach memory later, in  *)
(* program order; the read-modify-write operations (fetch_add, fetch_sub)  *)
(* act on memory directly, after the thread's buffer has drained.          *)
(***************************************************************************)
EXTENDS Integers, Sequences, FiniteSets

\* ------------------------------------------------------------- constants

MAX_TICKERS == 1024

\* The per-side capacity is 1024 in the source; the model scales it down so
\* that a full side is reachable.
MaxOrdersBound == 2

MAX_ORDERS_PER_SIDE == MaxOrdersBound

\* "arbitrarily high initial value" of bestSellPrice
BEST_SELL_INIT == 1000000

\* Bound on the number of addOrder/matchOrder calls of one run.
MaxCalls == 3

\* Bound on the calls of the longer runs.
MaxDeepCalls == 4

\* Bound on the calls of the runs that route several tickers.
MaxRouterCalls == 3

\* Bound on the calls of the runs that submit invalid orders.
MaxInputCalls == 3

Threads == {1, 2}

Sides == {"Buy", "Sell"}

\* Ticker symbols are C strings: sequences of character codes.
FB == <<70, 66>>

Aa == <<65, 97>>

BB == <<66, 66>>

\* ------------------------------------------------------------ the router

\* unsigned int hash: 32 bits, kept as two 16-bit halves <<high, low>>, since
\* the model checker's integers are 32-bit signed.
Half == 65536

\* hash * 31 + c, modulo 2^32
hashStep(hash, c) ==
    LET low == hash[2] * 31 + c
    IN  << (hash[1] * 31 + (low \div Half)) % Half, low % Half >>

RECURSIVE hashLoop(_, _)
hashLoop(hash, ticker) ==
    IF ticker = <<>> THEN hash
    ELSE hashLoop(hashStep(hash, Head(ticker)), Tail(ticker))

\* hash % MAX_TICKERS, of the 32-bit value
hashTicker(ticker) ==
    LET hash == hashLoop(<<0, 0>>, ticker)
    IN  ((hash[1] % MAX_TICKERS) * (Half % MAX_TICKERS) + hash[2]) % MAX_TICKERS

\* The books the model keeps: the buckets the tickers in use hash to.
AllTickers == {FB, Aa, BB}

BucketIds == {hashTicker(tk) : tk \in AllTickers}

\* ----------------------------------------------------------------- state

VARIABLES
    orderBooks,   \* the global array of order books, by bucket index
    pc,           \* each thread's position
    frame,        \* each thread's local variables
    sb,           \* each thread's store buffer: stores not yet in memory
    fills,        \* the lines matchOrder has written to cout, in order
    calls,        \* number of calls begun
    result,       \* what the last call to return gave its caller
    subm          \* per slot, the order an addOrder call submitted into it

vars == <<orderBooks, pc, frame, sb, fills, calls, result, subm>>

Slots == 0 .. (MAX_ORDERS_PER_SIDE - 1)

NewOrder == [active |-> FALSE, isBuy |-> FALSE, quantity |-> 0, price |-> 0]

NewOrderBook ==
    [buyOrders  |-> [i \in Slots |-> NewOrder], buyCount  |-> 0,
     sellOrders |-> [i \in Slots |-> NewOrder], sellCount |-> 0]

OrdersOf(side) == IF side = "Buy" THEN "buyOrders" ELSE "sellOrders"

CountOf(side) == IF side = "Buy" THEN "buyCount" ELSE "sellCount"

NoFrame ==
    [ticker |-> <<>>, idx |-> 0, i |-> 0,
     currentBuyCount |-> 0, currentSellCount |-> 0,
     bestBuyIndex |-> -1, bestSellIndex |-> -1,
     bestBuyPrice |-> 0, bestSellPrice |-> BEST_SELL_INIT,
     buyQty |-> 0, sellQty |-> 0, matchedQuantity |-> 0,
     applied |-> 0]   \* history: the fills applied before this call's fill

NoOrder == [quantity |-> 0, price |-> 0, ticker |-> <<>>]

Init ==
    /\ orderBooks = [b \in BucketIds |-> NewOrderBook]
    /\ pc = [t \in Threads |-> "idle"]
    /\ frame = [t \in Threads |-> NoFrame]
    /\ sb = [t \in Threads |-> <<>>]
    /\ fills = <<>>
    /\ calls = 0
    /\ result = "none"
    /\ subm = [b \in BucketIds |-> [s \in Sides |-> [i \in Slots |-> NoOrder]]]

\* ---------------------------------------------------------------- memory

\* A buffered store: the slot field it writes and the value.
Store(idx, side, pos, field, val) ==
    [idx |-> idx, side |-> side, pos |-> pos, field |-> field, val |-> val]

SameCell(e, idx, side, pos, field) ==
    e.idx = idx /\ e.side = side /\ e.pos = pos /\ e.field = field

\* The fields of a slot that are bool; the others, and the counts, are int.
BoolFields == {"active", "isBuy"}

\* What a read of a slot outside its array may return (undefined behaviour).
OobValues(field) ==
    IF field \in BoolFields THEN BOOLEAN ELSE {0, 1, 2}

\* The values a load by thread t of a slot field may return: the thread's own
\* latest buffered store to it, else memory; anything past the array's end.
LoadSet(t, idx, side, pos, field) ==
    IF pos \in Slots
    THEN LET mine == SelectSeq(sb[t], LAMBDA e : SameCell(e, idx, side, pos, field))
         IN  IF mine # <<>> THEN {mine[Len(mine)].val}
             ELSE {orderBooks[idx][OrdersOf(side)][pos][field]}
    ELSE OobValues(field)

\* The cells of one book an out-of-bounds write may land on.
BookCells ==
    {<<s, i, f>> : s \in Sides, i \in Slots,
                   f \in {"active", "isBuy", "quantity", "price"}}
      \cup {<<s, -1, "count">> : s \in Sides}

\* A value of a bool field (isBool) or of an int field, read as an int.
ToInt(v, isBool) == IF isBool THEN (IF v THEN 1 ELSE 0) ELSE v

\* The same, read as a bool.
ToBool(v, isBool) == IF isBool THEN v ELSE v # 0

CellValue(books, idx, c) ==
    IF c[3] = "count" THEN books[idx][CountOf(c[1])]
    ELSE books[idx][OrdersOf(c[1])][c[2]][c[3]]

\* Cell c of the book overwritten with v, a bool (isBool) or an int.
SetCell(books, idx, c, v, isBool) ==
    IF c[3] = "count" THEN [books EXCEPT ![idx][CountOf(c[1])] = ToInt(v, isBool)]
    ELSE IF c[3] \in BoolFields
         THEN [books EXCEPT ![idx][OrdersOf(c[1])][c[2]][c[3]] = ToBool(v, isBool)]
         ELSE [books EXCEPT ![idx][OrdersOf(c[1])][c[2]][c[3]] = ToInt(v, isBool)]

\* The memories a store can leave: the slot field written, or, for a slot
\* outside its array, any cell of the book overwritten or none of them.
WriteSet(books, e) ==
    IF e.pos \in Slots
    THEN {[books EXCEPT ![e.idx][OrdersOf(e.side)][e.pos][e.field] = e.val]}
    ELSE {books} \cup
         {SetCell(books, e.idx, c, e.val, e.field \in BoolFields) : c \in BookCells}

\* quantity.fetch_sub(n), were the subtraction lost.
FetchSubLost(books, idx, side, pos, n) == {books}

\* quantity.fetch_sub(n) on a slot: atomic on memory.
FetchSubSet(books, idx, side, pos, n) ==
    IF pos \in Slots
    THEN {[books EXCEPT ![idx][OrdersOf(side)][pos].quantity = @ - n]}
    ELSE {books} \cup
         {SetCell(books, idx, c,
                  ToInt(CellValue(books, idx, c), c[3] \in BoolFields) - n, FALSE) :
             c \in BookCells}

\* A buffered store reaches memory.
Commit(t) ==
    /\ sb[t] # <<>>
    /\ orderBooks' \in WriteSet(orderBooks, Head(sb[t]))
    /\ sb' = [sb EXCEPT ![t] = Tail(@)]
    /\ UNCHANGED <<pc, frame, fills, calls, result, subm>>

\* --------------------------------------------------------------- addOrder

\* The stores of lines 63-66 (68... for a sell), in program order.
InsertStores(idx, side, pos, quantity, price) ==
    << Store(idx, side, pos, "active", TRUE),
       Store(idx, side, pos, "isBuy", side = "Buy"),
       Store(idx, side, pos, "quantity", quantity),
       Store(idx, side, pos, "price", price) >>

\* The test that drops an order when its side is full.
SideFull(pos) == pos >= MAX_ORDERS_PER_SIDE

AddOrder(t, orderType, ticker, quantity, price) ==
    /\ pc[t] = "idle"
    /\ calls' = calls + 1
    /\ LET idx == hashTicker(ticker)
           pos == orderBooks[idx][CountOf(orderType)]
       IN  IF orderType \in Sides
           THEN /\ sb[t] = <<>>
                /\ orderBooks' = [orderBooks EXCEPT ![idx][CountOf(orderType)] = pos + 1]
                /\ IF SideFull(pos)
                   THEN UNCHANGED <<sb, subm>>
                   ELSE /\ sb' = [sb EXCEPT ![t] =
                                     InsertStores(idx, orderType, pos, quantity, price)]
                        /\ subm' = IF pos \in Slots
                                   THEN [subm EXCEPT ![idx][orderType][pos] =
                                           [quantity |-> quantity, price |-> price,
                                            ticker |-> ticker]]
                                   ELSE subm
           ELSE UNCHANGED <<orderBooks, sb, subm>>
    /\ result' = "void"
    /\ UNCHANGED <<pc, frame, fills>>

\* ------------------------------------------------------------- matchOrder

ScanPc(side, stage) == (IF side = "Buy" THEN "b_" ELSE "s_") \o stage

CurrentCount(f, side) ==
    IF side = "Buy" THEN f.currentBuyCount ELSE f.currentSellCount

\* Where the scan of one side goes with index i: the next slot, or past the loop.
LoopPc(f, side, i) ==
    IF i < CurrentCount(f, side) THEN ScanPc(side, "active")
    ELSE IF side = "Buy" THEN "s_count" ELSE "m_check"

\* Lines 85-91: the locals, and the load of buyCount.
MatchBegin(t, ticker) ==
    /\ pc[t] = "idle"
    /\ calls' = calls + 1
    /\ LET idx == hashTicker(ticker)
           f == [NoFrame EXCEPT !.ticker = ticker, !.idx = idx,
                                !.currentBuyCount = orderBooks[idx].buyCount]
       IN  /\ frame' = [frame EXCEPT ![t] = f]
           /\ pc' = [pc EXCEPT ![t] = LoopPc(f, "Buy", 0)]
    /\ UNCHANGED <<orderBooks, sb, fills, result, subm>>

\* Line 103: the load of sellCount.
SellCount(t) ==
    /\ pc[t] = "s_count"
    /\ LET f == [frame[t] EXCEPT !.i = 0,
                    !.currentSellCount = orderBooks[frame[t].idx].sellCount]
       IN  /\ frame' = [frame EXCEPT ![t] = f]
           /\ pc' = [pc EXCEPT ![t] = LoopPc(f, "Sell", 0)]
    /\ UNCHANGED <<orderBooks, sb, fills, calls, result, subm>>

\* The scan leaves slot i for the next one.
Advance(t, side, f) ==
    /\ frame' = [frame EXCEPT ![t] = [f EXCEPT !.i = f.i + 1]]
    /\ pc' = [pc EXCEPT ![t] = LoopPc(f, side, f.i + 1)]

\* Lines 93 and 105: the load of the slot's active flag.
ScanActive(t, side) ==
    /\ pc[t] = ScanPc(side, "active")
    /\ \E a \in LoadSet(t, frame[t].idx, side, frame[t].i, "active") :
          IF a THEN /\ pc' = [pc EXCEPT ![t] = ScanPc(side, "qty")]
                    /\ UNCHANGED frame
          ELSE Advance(t, side, frame[t])
    /\ UNCHANGED <<orderBooks, sb, fills, calls, result, subm>>

\* Lines 94 and 106: the load of the slot's quantity.
ScanQty(t, side) ==
    /\ pc[t] = ScanPc(side, "qty")
    /\ \E q \in LoadSet(t, frame[t].idx, side, frame[t].i, "quantity") :
          IF q > 0 THEN /\ pc' = [pc EXCEPT ![t] = ScanPc(side, "price")]
                        /\ UNCHANGED frame
          ELSE Advance(t, side, frame[t])
    /\ UNCHANGED <<orderBooks, sb, fills, calls, result, subm>>

\* The comparisons of lines 95 and 107.
Better(side, price, f) ==
    IF side = "Buy" THEN price > f.bestBuyPrice ELSE price < f.bestSellPrice

\* The assignments of lines 96-97 and 108-109.
Select(side, price, f) ==
    IF side = "Buy"
    THEN [f EXCEPT !.bestBuyPrice = price, !.bestBuyIndex = f.i]
    ELSE [f EXCEPT !.bestSellPrice = price, !.bestSellIndex = f.i]

\* Lines 95 and 107: the read of the slot's price in the comparison.  The
\* price is a plain int: the assignment of the next line may reuse this read
\* or read the field again.
ScanPrice(t, side) ==
    /\ pc[t] = ScanPc(side, "price")
    /\ \E p \in LoadSet(t, frame[t].idx, side, frame[t].i, "price") :
          IF Better(side, p, frame[t])
          THEN \/ Advance(t, side, Select(side, p, frame[t]))
               \/ /\ pc' = [pc EXCEPT ![t] = ScanPc(side, "price2")]
                  /\ UNCHANGED frame
          ELSE Advance(t, side, frame[t])
    /\ UNCHANGED <<orderBooks, sb, fills, calls, result, subm>>

\* Lines 96 and 108: the second read of the slot's price.
ScanPrice2(t, side) ==
    /\ pc[t] = ScanPc(side, "price2")
    /\ \E p \in LoadSet(t, frame[t].idx, side, frame[t].i, "price") :
          Advance(t, side, Select(side, p, frame[t]))
    /\ UNCHANGED <<orderBooks, sb, fills, calls, result, subm>>

\* Line 115 without its comparison of the prices.
CrossConditionNoPrice(f) ==
    /\ f.bestBuyIndex # -1
    /\ f.bestSellIndex # -1

\* Line 115.
CrossCondition(f) ==
    /\ f.bestBuyIndex # -1
    /\ f.bestSellIndex # -1
    /\ f.bestBuyPrice >= f.bestSellPrice

\* The end of matchOrder, were it to go back to line 85 and scan again.
ScanAgain(t) ==
    LET f == [NoFrame EXCEPT !.ticker = frame[t].ticker, !.idx = frame[t].idx,
                             !.currentBuyCount = orderBooks[frame[t].idx].buyCount]
    IN  /\ pc' = [pc EXCEPT ![t] = LoopPc(f, "Buy", 0)]
        /\ frame' = [frame EXCEPT ![t] = f]
        /\ result' = result

\* matchOrder is void, like addOrder.
Return(t) ==
    /\ pc' = [pc EXCEPT ![t] = "idle"]
    /\ frame' = [frame EXCEPT ![t] = NoFrame]
    /\ result' = "void"

\* Lines 115-117: no cross ends the call; a cross loads the buy's quantity.
MatchCheck(t) ==
    /\ pc[t] = "m_check"
    /\ IF CrossCondition(frame[t])
       THEN \E q \in LoadSet(t, frame[t].idx, "Buy", frame[t].bestBuyIndex, "quantity") :
               /\ frame' = [frame EXCEPT ![t].buyQty = q]
               /\ pc' = [pc EXCEPT ![t] = "m_sellQty"]
               /\ UNCHANGED result
       ELSE Return(t)
    /\ UNCHANGED <<orderBooks, sb, fills, calls, subm>>

\* The matched quantity, were it the buy's quantity whatever the sell's.
MinLeft(a, b) == a

Min(a, b) == IF a < b THEN a ELSE b

\* Lines 118-119.
LoadSellQty(t) ==
    /\ pc[t] = "m_sellQty"
    /\ \E q \in LoadSet(t, frame[t].idx, "Sell", frame[t].bestSellIndex, "quantity") :
          frame' = [frame EXCEPT ![t].sellQty = q,
                                 ![t].matchedQuantity = Min(frame[t].buyQty, q)]
    /\ pc' = [pc EXCEPT ![t] = "m_subBuy"]
    /\ UNCHANGED <<orderBooks, sb, fills, calls, result, subm>>

BestIndex(f, side) == IF side = "Buy" THEN f.bestBuyIndex ELSE f.bestSellIndex

\* The calls between their second decrement and their line on cout.
ReportPending == {"m_zeroBuy", "m_zeroSell", "m_print"}

\* The number of fills on the book of bucket idx written to cout.
Reported(idx) ==
    Cardinality({k \in 1 .. Len(fills) : hashTicker(fills[k].ticker) = idx})

\* The number of fills on the book of bucket idx with both decrements applied:
\* those reported and those about to be.
Applied(idx) ==
    Reported(idx)
      + Cardinality({u \in Threads : pc[u] \in ReportPending /\ frame[u].idx = idx})

\* Lines 122 and 123.  The first decrement notes how many fills were applied
\* before it.
FetchSub(t, side) ==
    /\ pc[t] = (IF side = "Buy" THEN "m_subBuy" ELSE "m_subSell")
    /\ sb[t] = <<>>
    /\ orderBooks' \in FetchSubSet(orderBooks, frame[t].idx, side,
                                   BestIndex(frame[t], side), frame[t].matchedQuantity)
    /\ pc' = [pc EXCEPT ![t] = IF side = "Buy" THEN "m_subSell" ELSE "m_zeroBuy"]
    /\ frame' = IF side = "Buy"
                THEN [frame EXCEPT ![t].applied = Applied(frame[t].idx)]
                ELSE frame
    /\ UNCHANGED <<sb, fills, calls, result, subm>>

\* Lines 126-128 and 129-131.
MarkInactive(t, side) ==
    /\ pc[t] = (IF side = "Buy" THEN "m_zeroBuy" ELSE "m_zeroSell")
    /\ \E q \in LoadSet(t, frame[t].idx, side, BestIndex(frame[t], side), "quantity") :
          IF q = 0
          THEN sb' = [sb EXCEPT ![t] = Append(@,
                         Store(frame[t].idx, side, BestIndex(frame[t], side),
                               "active", FALSE))]
          ELSE UNCHANGED sb
    /\ pc' = [pc EXCEPT ![t] = IF side = "Buy" THEN "m_zeroSell" ELSE "m_print"]
    /\ UNCHANGED <<orderBooks, frame, fills, calls, result, subm>>

\* The line written to cout, were it to print buyQty for matchedQuantity.
FillLineBuyQty(f) ==
    [quantity |-> f.buyQty, ticker |-> f.ticker,
     buyPrice |-> f.bestBuyPrice, sellPrice |-> f.bestSellPrice,
     buyIndex |-> f.bestBuyIndex, sellIndex |-> f.bestSellIndex]

\* The line written to cout, with the slots it is about.
FillLine(f) ==
    [quantity |-> f.matchedQuantity, ticker |-> f.ticker,
     buyPrice |-> f.bestBuyPrice, sellPrice |-> f.bestSellPrice,
     buyIndex |-> f.bestBuyIndex, sellIndex |-> f.bestSellIndex]

\* Lines 134-135.
Report(t) ==
    /\ pc[t] = "m_print"
    /\ fills' = Append(fills, FillLine(frame[t]))
    /\ Return(t)
    /\ UNCHANGED <<orderBooks, sb, calls, subm>>

\* ---------------------------------------------------------- specifications

Step(t) ==
    \/ SellCount(t)
    \/ ScanActive(t, "Buy")
    \/ ScanQty(t, "Buy")
    \/ ScanPrice(t, "Buy")
    \/ ScanPrice2(t, "Buy")
    \/ ScanActive(t, "Sell")
    \/ ScanQty(t, "Sell")
    \/ ScanPrice(t, "Sell")
    \/ ScanPrice2(t, "Sell")
    \/ MatchCheck(t)
    \/ LoadSellQty(t)
    \/ FetchSub(t, "Buy")
    \/ FetchSub(t, "Sell")
    \/ MarkInactive(t, "Buy")
    \/ MarkInactive(t, "Sell")
    \/ Report(t)
    \/ Commit(t)

\* The calls a run may begin: the threads that call, the number of calls, and
\* the tickers, quantities and prices of the calls.
NextOver(threads, limit, tickers, quantities, prices) ==
    \E t \in threads :
       \/ /\ calls < limit
          /\ \E ty \in Sides, tk \in tickers, q \in quantities, p \in prices :
                AddOrder(t, ty, tk, q, p)
       \/ /\ calls < limit
          /\ \E tk \in tickers : MatchBegin(t, tk)
       \/ Step(t)

Quantities == {1, 2}

Prices == {1, 2}

\* Two threads calling addOrder and matchOrder on one ticker, as simulateOrders
\* does, in any order.
Next == NextOver(Threads, MaxCalls, {FB}, Quantities, Prices)

Spec == Init /\ [][Next]_vars

\* The same, with one more call.
NextDeep == NextOver(Threads, MaxDeepCalls, {FB}, Quantities, Prices)

SpecDeep == Init /\ [][NextDeep]_vars

\* The race scenario: the book of FB holds one buy and one sell, 100 shares at
\* 50 each, both fully written; each thread then calls matchOrder once.
RaceOrder(isBuy) ==
    [active |-> TRUE, isBuy |-> isBuy, quantity |-> 100, price |-> 50]

RaceBook ==
    [buyOrders  |-> [i \in Slots |-> IF i = 0 THEN RaceOrder(TRUE) ELSE NewOrder],
     buyCount   |-> 1,
     sellOrders |-> [i \in Slots |-> IF i = 0 THEN RaceOrder(FALSE) ELSE NewOrder],
     sellCount  |-> 1]

InitRace ==
    /\ orderBooks = [b \in BucketIds |->
                        IF b = hashTicker(FB) THEN RaceBook ELSE NewOrderBook]
    /\ pc = [t \in Threads |-> "idle"]
    /\ frame = [t \in Threads |-> NoFrame]
    /\ sb = [t \in Threads |-> <<>>]
    /\ fills = <<>>
    /\ calls = 0
    /\ result = "none"
    /\ subm = [b \in BucketIds |-> [s \in Sides |-> [i \in Slots |->
                 IF b = hashTicker(FB) /\ i = 0
                 THEN [quantity |-> 100, price |-> 50, ticker |-> FB]
                 ELSE NoOrder]]]

\* Thread 1 makes the first call and thread 2 the second.
NextRace ==
    \E t \in Threads :
       \/ /\ t = calls + 1
          /\ MatchBegin(t, FB)
       \/ Step(t)

SpecRace == InitRace /\ [][NextRace]_vars

\* One thread submitting orders that may be invalid.
InputQuantities == {-1, 0, 1}

InputPrices == {0, 1}

NextInputs == NextOver({1}, MaxInputCalls, {FB}, InputQuantities, InputPrices)

SpecInputs == Init /\ [][NextInputs]_vars

\* Calls on three tickers, two of which hash to the same bucket.
NextRouter == NextOver(Threads, MaxRouterCalls, AllTickers, {1}, {1})

SpecRouter == Init /\ [][NextRouter]_vars

\* The full book: every slot of FB holds a fully written order of 1 share, the
\* buy of slot 0 at 2 and every other order at 1, so that each buy crosses each
\* sell; each thread then calls matchOrder once.
PairOrder(isBuy, price) ==
    [active |-> TRUE, isBuy |-> isBuy, quantity |-> 1, price |-> price]

PairsBook ==
    [buyOrders  |-> [i \in Slots |-> PairOrder(TRUE, IF i = 0 THEN 2 ELSE 1)],
     buyCount   |-> MAX_ORDERS_PER_SIDE,
     sellOrders |-> [i \in Slots |-> PairOrder(FALSE, 1)],
     sellCount  |-> MAX_ORDERS_PER_SIDE]

InitPairs ==
    /\ orderBooks = [b \in BucketIds |->
                        IF b = hashTicker(FB) THEN PairsBook ELSE NewOrderBook]
    /\ pc = [t \in Threads |-> "idle"]
    /\ frame = [t \in Threads |-> NoFrame]
    /\ sb = [t \in Threads |-> <<>>]
    /\ fills = <<>>
    /\ calls = 0
    /\ result = "none"
    /\ subm = [b \in BucketIds |-> [s \in Sides |-> [i \in Slots |->
                 IF b = hashTicker(FB)
                 THEN [quantity |-> 1,
                       price |-> IF s = "Buy" /\ i = 0 THEN 2 ELSE 1,
                       ticker |-> FB]
                 ELSE NoOrder]]]

SpecPairs == InitPairs /\ [][NextRace]_vars

\* Bound on the calls of the single-threaded runs.
MaxSoloCalls == 4

SoloQuantities == {100, 300}

SoloPrices == {55, 60}

\* One thread calling addOrder and matchOrder on one ticker, in any order.
NextSolo == NextOver({1}, MaxSoloCalls, {FB}, SoloQuantities, SoloPrices)

SpecSolo == Init /\ [][NextSolo]_vars

\* Bound on the calls of the runs with prices up to the initial bestSellPrice.
MaxPriceCalls == 3

HighPrices == {1, BEST_SELL_INIT}

\* One thread submitting orders of 1 share at a low and at a high price.
NextPrices == NextOver({1}, MaxPriceCalls, {FB}, {1}, HighPrices)

SpecPrices == Init /\ [][NextPrices]_vars

\* Bound on the calls of the runs that start from the book of the race.
MaxRefillCalls == 4

\* Two threads calling matchOrder and, while the sell side has a free slot,
\* addOrder of a sell of 1 share at 1, in any order, on the book that holds one
\* buy and one sell of 100 at 50.
NextRefill ==
    \E t \in Threads :
       \/ /\ calls < MaxRefillCalls
          /\ orderBooks[hashTicker(FB)].sellCount < MAX_ORDERS_PER_SIDE
          /\ AddOrder(t, "Sell", FB, 1, 1)
       \/ /\ calls < MaxRefillCalls
          /\ MatchBegin(t, FB)
       \/ Step(t)

SpecRefill == InitRace /\ [][NextRefill]_vars

\* ------------------------------------------------------- what is observed

RECURSIVE SumQuantity(_, _)
\* The sum of the quantity fields of a side's first n slots.
SumQuantity(orders, n) ==
    IF n = 0 THEN 0 ELSE orders[n - 1].quantity + SumQuantity(orders, n - 1)

\* The remaining quantities in memory of the book of bucket idx.
SumRemaining(idx) ==
    SumQuantity(orderBooks[idx].buyOrders, MAX_ORDERS_PER_SIDE)
      + SumQuantity(orderBooks[idx].sellOrders, MAX_ORDERS_PER_SIDE)

\* The initial quantities of the orders inserted into the book of bucket idx.
SumInserted(idx) ==
    SumQuantity(subm[idx]["Buy"], MAX_ORDERS_PER_SIDE)
      + SumQuantity(subm[idx]["Sell"], MAX_ORDERS_PER_SIDE)

RECURSIVE SumMatched(_)
\* The matched quantities of the first n reported fills.
SumMatched(n) == IF n = 0 THEN 0 ELSE fills[n].quantity + SumMatched(n - 1)

\* An observation point: no call in progress, every store in memory.
Quiescent == \A t \in Threads : pc[t] = "idle" /\ sb[t] = <<>>

\* No side has been given more orders than it has slots.
WithinCapacity(idx) ==
    /\ orderBooks[idx].buyCount \in 0 .. MAX_ORDERS_PER_SIDE
    /\ orderBooks[idx].sellCount \in 0 .. MAX_ORDERS_PER_SIDE

\* The latest value written to a slot field: a store still buffered, else memory.
Latest(idx, side, pos, field) ==
    IF \E t \in Threads : \E k \in 1 .. Len(sb[t]) : SameCell(sb[t][k], idx, side, pos, field)
    THEN LET t == CHOOSE u \in Threads :
                     \E k \in 1 .. Len(sb[u]) : SameCell(sb[u][k], idx, side, pos, field)
             mine == SelectSeq(sb[t], LAMBDA e : SameCell(e, idx, side, pos, field))
         IN  mine[Len(mine)].val
    ELSE orderBooks[idx][OrdersOf(side)][pos][field]

\* The order of a slot: inserted by an addOrder call that has returned, and
\* not yet filled to zero.
Resting(idx, side, pos) ==
    /\ subm[idx][side][pos] # NoOrder
    /\ Latest(idx, side, pos, "active")
    /\ Latest(idx, side, pos, "quantity") > 0

\* Thread t takes a step of the call it is in.
Steps(t) == pc'[t] # pc[t] \/ frame'[t] # frame[t]

\* ---------------------------------------------------------------- claims

\* C1: at every reachable state the remaining quantity of every order in the
\* book is >= 0, whatever the threads running matchOrder on the ticker do.
C1_NoNegativeQuantity ==
    \A b \in BucketIds, s \in Sides, i \in Slots :
        orderBooks[b][OrdersOf(s)][i].quantity >= 0

\* C2: from a book of one buy and one sell of 100 at 50, two threads running
\* matchOrder report no fill above 100 and no fills summing above 100, and once
\* both have returned exactly one fill of 100 is reported and both orders are
\* not live.
C2_ExactlyOneFill ==
    /\ \A k \in 1 .. Len(fills) : fills[k].quantity <= 100
    /\ SumMatched(Len(fills)) <= 100
    /\ (calls = Cardinality(Threads) /\ Quiescent) =>
          /\ Len(fills) = 1
          /\ fills[1].quantity = 100
          /\ ~orderBooks[hashTicker(FB)].buyOrders[0].active
          /\ ~orderBooks[hashTicker(FB)].sellOrders[0].active

FillPcs == {"m_sellQty", "m_subBuy", "m_subSell", "m_zeroBuy", "m_zeroSell", "m_print"}

\* C4: every fill that matchOrder executes and reports has
\* buyPrice >= sellPrice.
C4_PricePriority ==
    /\ \A k \in 1 .. Len(fills) : fills[k].buyPrice >= fills[k].sellPrice
    /\ \A t \in Threads :
          pc[t] \in FillPcs => frame[t].bestBuyPrice >= frame[t].bestSellPrice

\* C4 witness: a fill of a buy at 2 against a sell at 1 has been reported.
C4_Witness ==
    \E k \in 1 .. Len(fills) : fills[k].buyPrice = 2 /\ fills[k].sellPrice = 1

\* C5: an addOrder on a side that already holds MAX_ORDERS_PER_SIDE orders
\* reports CapacityExceeded to its caller and leaves every slot and both counts
\* of the book unchanged.
C5_CapacityReported ==
    [][\A t \in Threads, ty \in Sides, q \in Quantities, p \in Prices :
          (/\ orderBooks[hashTicker(FB)][CountOf(ty)] >= MAX_ORDERS_PER_SIDE
           /\ AddOrder(t, ty, FB, q, p))
             => /\ result' = "CapacityExceeded"
                /\ orderBooks' = orderBooks]_vars

\* C6: an addOrder call with a non-positive price or a non-positive quantity
\* is rejected before any mutation: the counts and every slot of the book are
\* the same after the call as before it, and it leaves no store to be done.
C6_InvalidRejected ==
    [][\A t \in Threads, ty \in Sides, q \in InputQuantities, p \in InputPrices :
          ((q <= 0 \/ p <= 0) /\ AddOrder(t, ty, FB, q, p))
             => /\ orderBooks' = orderBooks
                /\ sb' = sb]_vars

\* Thread t takes a step of a call on ticker x.
CallOn(t, x) ==
    \/ \E ty \in Sides : AddOrder(t, ty, x, 1, 1)
    \/ MatchBegin(t, x)
    \/ frame[t].ticker = x /\ Steps(t)

\* C7: two distinct tickers resolve to different books, so no step of an
\* addOrder or matchOrder call on one changes any order or count of the
\* other's book.
C7_Isolation ==
    [][\A t \in Threads, x \in AllTickers, y \in AllTickers :
          (x # y /\ CallOn(t, x))
             => orderBooks'[hashTicker(y)] = orderBooks[hashTicker(y)]]_vars

\* C8: every fill reported by matchOrder has a matched quantity > 0.
C8_PositiveFill == \A k \in 1 .. Len(fills) : fills[k].quantity > 0

BestPrice(f, side) == IF side = "Buy" THEN f.bestBuyPrice ELSE f.bestSellPrice

\* C9: a scan that starts after addOrder has returned (the slot is below the
\* count the scan loaded) sees the order, until it is filled to zero, as a live
\* candidate: it reads the slot active, its quantity positive, and selects it
\* only with its submitted price.
C9_InsertVisible ==
    [][\A t \in Threads, s \in Sides :
          LET f == frame[t]
          IN  (/\ pc[t] # "idle"
               /\ f.i \in Slots
               /\ Steps(t)
               /\ Resting(f.idx, s, f.i)
               /\ subm[f.idx][s][f.i].quantity > 0
               /\ subm[f.idx][s][f.i].price > 0)
                 => /\ pc[t] = ScanPc(s, "active") => pc'[t] = ScanPc(s, "qty")
                    /\ pc[t] = ScanPc(s, "qty") => pc'[t] = ScanPc(s, "price")
                    /\ (/\ pc[t] \in {ScanPc(s, "price"), ScanPc(s, "price2")}
                        /\ BestIndex(frame'[t], s) = f.i
                        /\ pc'[t] # ScanPc(s, "price2"))
                          => BestPrice(frame'[t], s) = subm[f.idx][s][f.i].price]_vars

\* C10: of two orders of one side at the same price, the first inserted before
\* the second's addOrder began, no fill decrements the second while the first
\* is live with remaining quantity > 0.
C10_TimePriority ==
    [][\A t \in Threads, s \in Sides :
          LET f == frame[t]
              j == BestIndex(f, s)
          IN  (/\ pc[t] = (IF s = "Buy" THEN "m_subBuy" ELSE "m_subSell")
               /\ Steps(t)
               /\ j \in Slots
               /\ f.matchedQuantity > 0)
                 => \A i \in Slots :
                       (/\ i < j
                        /\ subm[f.idx][s][i] # NoOrder
                        /\ subm[f.idx][s][j] # NoOrder
                        /\ subm[f.idx][s][i].price = subm[f.idx][s][j].price)
                          => ~Resting(f.idx, s, i)]_vars

\* C11: fills on one ticker are reported in the order their decrements were
\* applied: when a call writes its fill to cout, every fill on that ticker whose
\* two decrements were applied before this call's first decrement has already
\* been written.
C11_ReportOrder ==
    [][\A t \in Threads :
          Report(t) => Reported(frame[t].idx) >= frame[t].applied]_vars

\* A cross in the book of bucket idx: a resting buy and a resting sell with
\* buy price >= sell price.
CrossRemains(idx) ==
    \E i \in Slots, j \in Slots :
        /\ Resting(idx, "Buy", i)
        /\ Resting(idx, "Sell", j)
        /\ Latest(idx, "Buy", i, "price") >= Latest(idx, "Sell", j, "price")

\* No thread but t is in a call or has a store outstanding.
Alone(t) == \A u \in Threads \ {t} : pc[u] = "idle" /\ sb[u] = <<>>

\* C12: when a matchOrder invocation returns with no other thread active on
\* the ticker, no cross remains in the book.
C12_NoCrossRemains ==
    [][\A t \in Threads, b \in BucketIds :
          (/\ pc[t] # "idle"
           /\ pc'[t] = "idle"
           /\ frame[t].idx = b
           /\ Alone(t))
             => ~CrossRemains(b)']_vars

\* The slot matchOrder is to select on a side: a resting order with no resting
\* order of the side at a better price.
IsBest(idx, side, pos) ==
    /\ pos \in Slots
    /\ Resting(idx, side, pos)
    /\ \A i \in Slots :
          Resting(idx, side, i) =>
             IF side = "Buy"
             THEN Latest(idx, side, i, "price") <= Latest(idx, side, pos, "price")
             ELSE Latest(idx, side, i, "price") >= Latest(idx, side, pos, "price")

\* C13: with no concurrent activity on the ticker, the pair matchOrder has
\* selected when its scans end is the live buy with the highest price and the
\* live sell with the lowest price among the orders with positive quantity,
\* for all positive prices; it selects none on a side only when the side has
\* no such order.
C13_BestSelected ==
    \A t \in Threads, s \in Sides :
        (/\ pc[t] = "m_check"
         /\ Alone(t)
         /\ WithinCapacity(frame[t].idx))
           => IF \E i \in Slots : Resting(frame[t].idx, s, i)
              THEN IsBest(frame[t].idx, s, BestIndex(frame[t], s))
              ELSE BestIndex(frame[t], s) = -1

\* What holds of a fill by thread t of the buy b and the sell s, at each
\* position of the call: the quantities loaded are the remaining quantities, the
\* matched quantity is the lesser, each decrement takes exactly that much, and
\* an order is marked not live exactly when it is left with 0.
FillStage(t, b, s) ==
    LET f  == frame[t]
        bq == Latest(f.idx, "Buy", b, "quantity")
        sq == Latest(f.idx, "Sell", s, "quantity")
        ba == Latest(f.idx, "Buy", b, "active")
        sa == Latest(f.idx, "Sell", s, "active")
        m  == IF f.buyQty < f.sellQty THEN f.buyQty ELSE f.sellQty
    IN  /\ pc[t] = "m_sellQty" => f.buyQty = bq /\ bq > 0 /\ sq > 0 /\ ba /\ sa
        /\ pc[t] = "m_subBuy" =>
              /\ f.buyQty = bq /\ f.sellQty = sq /\ bq > 0 /\ sq > 0 /\ ba /\ sa
              /\ f.matchedQuantity = m
        /\ pc[t] = "m_subSell" =>
              bq = f.buyQty - m /\ sq = f.sellQty /\ f.matchedQuantity = m /\ ba /\ sa
        /\ pc[t] = "m_zeroBuy" =>
              bq = f.buyQty - m /\ sq = f.sellQty - m /\ f.matchedQuantity = m /\ ba /\ sa
        /\ pc[t] = "m_zeroSell" =>
              /\ bq = f.buyQty - m /\ sq = f.sellQty - m /\ f.matchedQuantity = m
              /\ ba = (bq > 0) /\ sa
        /\ pc[t] = "m_print" =>
              /\ bq = f.buyQty - m /\ sq = f.sellQty - m /\ f.matchedQuantity = m
              /\ ba = (bq > 0) /\ sa = (sq > 0)
              /\ bq >= 0 /\ sq >= 0 /\ (bq = 0 \/ sq = 0)

\* C14: a fill executed with no concurrent activity on the ticker, between a
\* buy of the book with remaining quantity b and a sell of the book with
\* remaining quantity s, reports min(b, s), takes exactly min(b, s) from both,
\* leaves an order that reaches 0 not live and an order with quantity left live.
C14_SequentialFill ==
    [][\A t \in Threads :
          (/\ pc[t] \in FillPcs
           /\ Alone(t)
           /\ frame[t].bestBuyIndex \in Slots
           /\ frame[t].bestSellIndex \in Slots)
             => /\ FillStage(t, frame[t].bestBuyIndex, frame[t].bestSellIndex)
                /\ Report(t) =>
                      /\ Len(fills') = Len(fills) + 1
                      /\ fills'[Len(fills')].quantity =
                            (IF frame[t].buyQty < frame[t].sellQty
                             THEN frame[t].buyQty ELSE frame[t].sellQty)]_vars

\* C14 witness: buy 300 @ 60 against sell 100 @ 55 has given one fill of 100,
\* the buy is live with 200 and the sell is not live with 0.
C14_Witness ==
    /\ Quiescent
    /\ Len(fills) = 1
    /\ fills[1].quantity = 100 /\ fills[1].buyPrice = 60 /\ fills[1].sellPrice = 55
    /\ LET book == orderBooks[hashTicker(FB)]
       IN  /\ subm[hashTicker(FB)]["Buy"][fills[1].buyIndex].quantity = 300
           /\ subm[hashTicker(FB)]["Sell"][fills[1].sellIndex].quantity = 100
           /\ book.buyOrders[fills[1].buyIndex].active
           /\ book.buyOrders[fills[1].buyIndex].quantity = 200
           /\ ~book.sellOrders[fills[1].sellIndex].active
           /\ book.sellOrders[fills[1].sellIndex].quantity = 0

\* C15: at every observation point, every order that has been inserted into a
\* book is not live if and only if its remaining quantity is 0.
C15_NotLiveIffZero ==
    Quiescent =>
       \A b \in BucketIds, s \in Sides, i \in Slots :
           subm[b][s][i] # NoOrder =>
              (~orderBooks[b][OrdersOf(s)][i].active
                  <=> orderBooks[b][OrdersOf(s)][i].quantity = 0)

\* A store of addOrder's lines 63-66 / 71-74.
IsInsertStore(e) == e.field # "active" \/ e.val = TRUE

\* The insertion of the order of a slot has completed: addOrder has reserved
\* the slot and none of its stores to the slot is still to reach memory.
InsertionComplete(b, s, i) ==
    /\ subm[b][s][i] # NoOrder
    /\ \A t \in Threads : \A k \in 1 .. Len(sb[t]) :
          ~(sb[t][k].idx = b /\ sb[t][k].side = s /\ sb[t][k].pos = i
              /\ IsInsertStore(sb[t][k]))

\* The step is one of addOrder: the call itself, or one of its stores
\* reaching memory.
AddOrderStep ==
    \/ calls' # calls /\ pc' = pc
    \/ \E t \in Threads :
          sb[t] # <<>> /\ sb'[t] = Tail(sb[t]) /\ IsInsertStore(Head(sb[t]))

\* C16: once an order's insertion has completed, no step changes its side or
\* its price, no step of addOrder changes its quantity or its liveness, and its
\* remaining quantity never increases.
C16_FrameOfOrder ==
    [][\A b \in BucketIds, s \in Sides, i \in Slots :
          InsertionComplete(b, s, i) =>
             LET o == orderBooks[b][OrdersOf(s)][i]
                 n == orderBooks'[b][OrdersOf(s)][i]
             IN  /\ n.isBuy = o.isBuy
                 /\ n.price = o.price
                 /\ n.quantity <= o.quantity
                 /\ AddOrderStep => n.quantity = o.quantity /\ n.active = o.active]_vars

\* The statement after each statement of the fill.
FillSucc(p) ==
    CASE p = "m_sellQty"  -> "m_subBuy"
      [] p = "m_subBuy"   -> "m_subSell"
      [] p = "m_subSell"  -> "m_zeroBuy"
      [] p = "m_zeroBuy"  -> "m_zeroSell"
      [] p = "m_zeroSell" -> "m_print"
      [] p = "m_print"    -> "idle"

\* The position of the fetch_sub on a side.
SubPc(side) == IF side = "Buy" THEN "m_subBuy" ELSE "m_subSell"

\* C17: each invocation of matchOrder executes and reports at most one fill,
\* between one buy and one sell, and then returns: the fill is entered only
\* from the end of the scans, its statements run once each in line order, the
\* line on cout is the last of them and ends the call, and a quantity of the
\* book is decremented only by the fetch_sub of a call on the slot it selected.
C17_OneFillPerCall ==
    [][/\ \A t \in Threads :
             /\ (pc[t] \in FillPcs /\ pc'[t] # pc[t]) => pc'[t] = FillSucc(pc[t])
             /\ (pc[t] \notin FillPcs /\ pc'[t] \in FillPcs) =>
                    pc[t] = "m_check" /\ pc'[t] = "m_sellQty"
       /\ fills' # fills =>
             \E t \in Threads :
                /\ pc[t] = "m_print" /\ pc'[t] = "idle"
                /\ Len(fills') = Len(fills) + 1
                /\ SubSeq(fills', 1, Len(fills)) = fills
                /\ fills'[Len(fills')].buyIndex = frame[t].bestBuyIndex
                /\ fills'[Len(fills')].sellIndex = frame[t].bestSellIndex
       /\ \A b \in BucketIds, s \in Sides, i \in Slots :
             (/\ orderBooks'[b][OrdersOf(s)][i].quantity
                    # orderBooks[b][OrdersOf(s)][i].quantity
              /\ ~AddOrderStep) =>
                \E t \in Threads :
                   /\ pc[t] = SubPc(s) /\ pc'[t] = FillSucc(pc[t])
                   /\ frame[t].idx = b /\ BestIndex(frame[t], s) = i]_vars

\* C17 witness: one matchOrder call has reported one fill and returned, and a
\* cross remains in the book.
C17_Witness ==
    /\ Quiescent
    /\ calls = 1
    /\ Len(fills) = 1
    /\ CrossRemains(hashTicker(FB))

\* C18: every fill carries as buyPrice and sellPrice the prices submitted in
\* the addOrder calls of the two orders it fills, both when it is reported and
\* while it is executed; so no fill is of an order whose price is not yet
\* stored.
C18_SubmittedPrices ==
    /\ \A k \in 1 .. Len(fills) :
          LET b == hashTicker(fills[k].ticker)
          IN  /\ fills[k].buyIndex \in Slots =>
                    fills[k].buyPrice = subm[b]["Buy"][fills[k].buyIndex].price
              /\ fills[k].sellIndex \in Slots =>
                    fills[k].sellPrice = subm[b]["Sell"][fills[k].sellIndex].price
    /\ \A t \in Threads, s \in Sides :
          (pc[t] \in FillPcs /\ BestIndex(frame[t], s) \in Slots) =>
             BestPrice(frame[t], s) = subm[frame[t].idx][s][BestIndex(frame[t], s)].price

\* The positions of a scan at which a field of slot i is read.
ScanReads ==
    {ScanPc(s, stage) : s \in Sides, stage \in {"active", "qty", "price", "price2"}}

\* C19: every slot index matchOrder reads during its scans is within
\* [0, MAX_ORDERS_PER_SIDE): the counts it loaded as scan bounds do not exceed
\* MAX_ORDERS_PER_SIDE.
C19_ScanInBounds ==
    \A t \in Threads :
        /\ pc[t] \in ScanReads => frame[t].i \in Slots
        /\ frame[t].currentBuyCount <= MAX_ORDERS_PER_SIDE
        /\ frame[t].currentSellCount <= MAX_ORDERS_PER_SIDE

RECURSIVE SumLatest(_, _, _)
\* The sum of the latest quantities written to the first n slots of a side.
SumLatest(idx, side, n) ==
    IF n = 0 THEN 0
    ELSE Latest(idx, side, n - 1, "quantity") + SumLatest(idx, side, n - 1)

\* C20: in a single-threaded sequence of addOrder and matchOrder calls on one
\* ticker with positive prices and quantities and no side over capacity,
\* between the calls and for each side separately, the initial quantities of
\* the orders inserted on the side equal the remaining quantities on the side
\* plus the quantities of all reported fills.
C20_SideConservation ==
    \A t \in Threads, s \in Sides :
        (/\ pc[t] = "idle"
         /\ Alone(t)
         /\ WithinCapacity(hashTicker(FB)))
           => SumQuantity(subm[hashTicker(FB)][s], MAX_ORDERS_PER_SIDE)
                = SumLatest(hashTicker(FB), s, MAX_ORDERS_PER_SIDE)
                    + SumMatched(Len(fills))

\* C20 witness: between two calls, after a fill of 100 that leaves 200 on the
\* buy side and nothing on the sell side.
C20_Witness ==
    /\ pc[1] = "idle"
    /\ Alone(1)
    /\ WithinCapacity(hashTicker(FB))
    /\ Len(fills) = 1
    /\ fills[1].quantity = 100
    /\ SumLatest(hashTicker(FB), "Buy", MAX_ORDERS_PER_SIDE) = 200
    /\ SumLatest(hashTicker(FB), "Sell", MAX_ORDERS_PER_SIDE) = 0
    /\ SumQuantity(subm[hashTicker(FB)]["Buy"], MAX_ORDERS_PER_SIDE) = 300

=============================================================================
